---- MODULE Spec2Model ----
(***************************************************************************)
(* A model of gos_chic.py, the GrapheneOS wallpaper generator: the canvas  *)
(* compositor build_wallpaper with its two grid placers, the tile and      *)
(* accent stylers, and the hole isolator flood_fill_inner_hole.            *)
(*                                                                         *)
(* Images are modelled by what the placement and masking code reads of     *)
(* them: their size, and per pixel an alpha value and the name of the fill *)
(* that coloured it.  Floating point options (spacing, scales, accent      *)
(* fractions) are modelled as exact decimal fractions, whose int(), round()*)
(* and ceil() agree with Python's on the values drawn here.                *)
(***************************************************************************)
EXTENDS Integers, Sequences, FiniteSets, TLC

VARIABLES
    cfg,        \* the arguments of build_wallpaper
    pc,         \* position of build_wallpaper's control flow
    bg,         \* the canvas, as the sequence of operations done on it
    saves,      \* number of times bg.save has run
    files,      \* temporary raster files that exist on disk
    oserrors,   \* temporary files whose os.remove raised OSError (and was ignored)
    accent_img, \* side of the accent image built (0: not built yet)
    call,       \* a direct call of a styler / the hole isolator, and its arguments
    fill,       \* the locals q, visited, m of a running flood_fill_inner_hole
    result      \* what that call returned or raised

vars == <<cfg, pc, bg, saves, files, oserrors, accent_img, call, fill, result>>

----------------------------------------------------------------------------
(* Bounds of the model *)

MaxScreen == 5
MaxLogo == 3
MaxRotGrow == 1

----------------------------------------------------------------------------
(* Python arithmetic *)

\* int(num/den) for den > 0: truncation toward zero
Trunc(num, den) == IF num >= 0 THEN num \div den ELSE -((-num) \div den)

\* math.ceil(a / b) for b > 0
Ceil(a, b) == -((-a) \div b)

\* round(num/den) for den > 0: Python rounds halves to the even neighbour
Round(num, den) ==
    LET q == num \div den
        r == num % den
    IN  IF 2 * r < den THEN q
        ELSE IF 2 * r > den THEN q + 1
        ELSE IF q % 2 = 0 THEN q ELSE q + 1

Abs(n) == IF n < 0 THEN -n ELSE n

Max(a, b) == IF a >= b THEN a ELSE b

Min(a, b) == IF a <= b THEN a ELSE b

----------------------------------------------------------------------------
(* Styles *)

Styles == {"gradient", "glossmix", "emboss"}

\* the style names a caller may pass: the closed set and one outside it
StyleNames == Styles \cup {"bogus"}

\* the variant build_tile_variants' closure returns for a row
tile_for_row(style, row) ==
    CASE style = "gradient" -> "base"
      [] style = "glossmix" -> IF row % 2 = 0 THEN "glossy" ELSE "matte"
      [] style = "emboss"   -> "emboss"

----------------------------------------------------------------------------
(* Images *)

\* the pixel coordinates of a w x h image
Pixels(w, h) == (0..(w - 1)) \X (0..(h - 1))

\* Image.new("L", (w, h), v)
NewL(w, h, v) == [w |-> w, h |-> h, px |-> [p \in Pixels(w, h) |-> v]]

\* Image.new("RGBA", (w, h), colour): a pixel is the fill that coloured it
\* and its alpha
NewRGBA(w, h, c, a) == [w |-> w, h |-> h, px |-> [p \in Pixels(w, h) |-> [c |-> c, a |-> a]]]

\* img.split()[3]
AlphaBand(img) == [w |-> img.w, h |-> img.h, px |-> [p \in Pixels(img.w, img.h) |-> img.px[p].a]]

\* Pillow's DIV255: a / 255 rounded, by shifts
Div255(a) == (((a + 128) \div 256) + (a + 128)) \div 256

\* Pillow's BLEND8 of one channel under a mask value
Blend8(m, in1, in2) == Div255(in1 * (255 - m) + in2 * m)

\* one pixel of a masked paste: every channel, alpha included, is blended
PastePixel(dst, src, m) ==
    [c |-> IF m = 0 THEN dst.c ELSE IF m = 255 THEN src.c ELSE "mix",
     a |-> Blend8(m, dst.a, src.a)]

\* dst.paste(src, (ox, oy), mask): mask is an "L" image of src's size; the part
\* of src that falls outside dst is clipped
Paste(dst, src, ox, oy, mask) ==
    [dst EXCEPT !.px =
        [p \in Pixels(dst.w, dst.h) |->
            LET q == <<p[1] - ox, p[2] - oy>>
            IN  IF q \in Pixels(src.w, src.h)
                THEN PastePixel(dst.px[p], src.px[q], mask.px[q])
                ELSE dst.px[p]]]

\* ImageFilter.MaxFilter(3): the maximum over the 3 x 3 neighbourhood
MaxOf(S) == CHOOSE v \in S : \A u \in S : u <= v

MaxFilter3(img) ==
    [img EXCEPT !.px =
        [p \in Pixels(img.w, img.h) |->
            MaxOf({ img.px[q] : q \in { r \in Pixels(img.w, img.h) :
                                          Abs(r[1] - p[1]) <= 1 /\ Abs(r[2] - p[2]) <= 1 } })]]

\* an all-opaque image of one fill (the gradient's colours vary by row, its
\* alpha is 255 throughout)
make_vertical_gradient(w, h, name) == NewRGBA(w, h, name, 255)

\* a fill pasted without its mask
apply_fill_unmasked(fill_img, mask_img) == fill_img

apply_fill_with_mask(fill_img, mask_img) ==
    Paste(NewRGBA(fill_img.w, fill_img.h, "none", 0), fill_img, 0, 0, mask_img)

recolor_flat(mask_img, name) ==
    apply_fill_with_mask(NewRGBA(mask_img.w, mask_img.h, name, 255), mask_img)

Image(img) == [kind |-> "image", img |-> img]

Raise(exc) == [kind |-> "error", exc |-> exc]

----------------------------------------------------------------------------
(* Tile styler *)

\* the shadow and base layers composed by the emboss style
EmbossCanvas(mask) ==
    LET dilated == MaxFilter3(mask)
        shadow_rgba == apply_fill_with_mask(NewRGBA(mask.w, mask.h, "shadow", 255), dilated)
        base_rgba == apply_fill_with_mask(NewRGBA(mask.w, mask.h, "base", 255), mask)
        canvas == NewRGBA(mask.w, mask.h, "none", 0)
        shadowed == Paste(canvas, shadow_rgba, 2, 2, AlphaBand(shadow_rgba))
    IN  Paste(shadowed, base_rgba, 0, 0, AlphaBand(base_rgba))

\* build_tile_variants(mask, style)(row)
build_tile_variants(mask, style, row) ==
    IF style = "gradient"
    THEN Image(apply_fill_with_mask(make_vertical_gradient(mask.w, mask.h, "grad_30_10"), mask))
    ELSE IF style = "glossmix"
    THEN IF row % 2 = 0
         THEN Image(apply_fill_with_mask(make_vertical_gradient(mask.w, mask.h, "grad_35_12"), mask))
         ELSE Image(recolor_flat(mask, "flat_28"))
    ELSE IF style = "emboss"
    THEN Image(EmbossCanvas(mask))
    ELSE Raise("ValueError")

----------------------------------------------------------------------------
(* Hole isolator *)

\* the candidate seeds: the centre, then four per radius r in
\* range(1, min(w, h) // 6, 3), stopping once more than 50 are held
RECURSIVE SeedLoop(_, _, _, _, _)
SeedLoop(seeds, r, stop, cx, cy) ==
    IF r >= stop THEN seeds
    ELSE LET more == seeds \o << <<cx + r, cy>>, <<cx - r, cy>>, <<cx, cy + r>>, <<cx, cy - r>> >>
         IN  IF Len(more) > 50 THEN more
             ELSE SeedLoop(more, r + 3, stop, cx, cy)

Seeds(w, h) == SeedLoop(<< <<w \div 2, h \div 2>> >>, 1, Min(w, h) \div 6, w \div 2, h \div 2)

\* a candidate the seed search accepts
SeedOk(alpha, s) == s \in Pixels(alpha.w, alpha.h) /\ alpha.px[s] = 0

\* index of the first accepted candidate, 0 when there is none
SeedIndex(alpha) ==
    LET seeds == Seeds(alpha.w, alpha.h)
        ok == { k \in 1..Len(seeds) : SeedOk(alpha, seeds[k]) }
    IN  IF ok = {} THEN 0 ELSE CHOOSE k \in ok : \A l \in ok : k <= l

\* the neighbours of a pixel in the order the loop visits them
Neighbours(p) == << <<p[1] + 1, p[2]>>, <<p[1] - 1, p[2]>>, <<p[1], p[2] + 1>>, <<p[1], p[2] - 1>> >>

\* a fill that takes every faint pixel for a transparent one
FillableSoft(alpha, n, visited) ==
    n \in Pixels(alpha.w, alpha.h) /\ n \notin visited /\ alpha.px[n] < 128

\* whether the fill steps onto a neighbour
Fillable(alpha, n, visited) ==
    n \in Pixels(alpha.w, alpha.h) /\ n \notin visited /\ alpha.px[n] = 0

\* the inner for loop over the four neighbours: <<visited, q>> after it
RECURSIVE VisitNeighbours(_, _, _, _, _)
VisitNeighbours(alpha, ns, k, visited, q) ==
    IF k > Len(ns) THEN <<visited, q>>
    ELSE IF Fillable(alpha, ns[k], visited)
         THEN VisitNeighbours(alpha, ns, k + 1, visited \cup {ns[k]}, Append(q, ns[k]))
         ELSE VisitNeighbours(alpha, ns, k + 1, visited, q)

\* one iteration of the while loop: pop the head, mark it 255, enqueue its
\* fillable neighbours
FillStep(alpha, st) ==
    LET p == Head(st.q)
        vq == VisitNeighbours(alpha, Neighbours(p), 1, st.visited, Tail(st.q))
    IN  [q |-> vq[2], visited |-> vq[1], m |-> [st.m EXCEPT !.px[p] = 255]]

\* the locals as the while loop is entered
FillStart(alpha, seed) ==
    [q |-> <<seed>>, visited |-> {seed}, m |-> NewL(alpha.w, alpha.h, 0)]

RECURSIVE FillLoop(_, _)
FillLoop(alpha, st) ==
    IF st.q = <<>> THEN st.m ELSE FillLoop(alpha, FillStep(alpha, st))

\* the whole function, as its callers use it
flood_fill_inner_hole(alpha) ==
    LET k == SeedIndex(alpha)
    IN  IF k = 0 THEN NewL(alpha.w, alpha.h, 0)
        ELSE FillLoop(alpha, FillStart(alpha, Seeds(alpha.w, alpha.h)[k]))

----------------------------------------------------------------------------
(* Accent styler and accent composer *)

\* the image the rasterizer hands back for a shape: black, with the shape's alpha
Rendered(mask) ==
    [w |-> mask.w, h |-> mask.h,
     px |-> [p \in Pixels(mask.w, mask.h) |-> [c |-> "svg", a |-> mask.px[p]]]]

\* style_tinted_accent(mask_rgba, style, rgb): the tint is named, not computed
style_tinted_accent(mask_rgba, style) ==
    LET alpha == AlphaBand(mask_rgba)
        w == alpha.w
        h == alpha.h
    IN  IF style = "gradient"
        THEN Image(apply_fill_with_mask(make_vertical_gradient(w, h, "tint_92_70"), alpha))
        ELSE IF style = "glossmix"
        THEN Image(apply_fill_with_mask(make_vertical_gradient(w, h, "tint_105_75"), alpha))
        ELSE IF style = "emboss"
        THEN Image(EmbossCanvas(alpha))
        ELSE Image(apply_fill_with_mask(NewRGBA(w, h, "tint_flat", 255), alpha))

\* build_accent_with_center(svg, size_px, center_rgb, outline_style, outline_rgb),
\* on the shape the rasterizer returns; outline_style "None" is Python's None
build_accent_with_center(mask, outline_style) ==
    LET accent_rgba == Rendered(mask)
        alpha == AlphaBand(accent_rgba)
        w == alpha.w
        h == alpha.h
        empty == NewRGBA(w, h, "none", 0)
        styled == style_tinted_accent(accent_rgba, outline_style)
        accent_outline ==
            IF outline_style # "None"
            THEN Paste(empty, styled.img, 0, 0, AlphaBand(styled.img))
            ELSE Paste(empty, NewRGBA(w, h, "outline", 255), 0, 0, alpha)
        inner_mask == flood_fill_inner_hole(alpha)
        inner_gray == Paste(empty, NewRGBA(w, h, "center", 255), 0, 0, inner_mask)
        with_inner == Paste(empty, inner_gray, 0, 0, AlphaBand(inner_gray))
    IN  IF outline_style # "None" /\ styled.kind = "error"
        THEN styled
        ELSE Image(Paste(with_inner, accent_outline, 0, 0, AlphaBand(accent_outline)))

----------------------------------------------------------------------------
(* build_wallpaper: geometry *)

pad_steps == 50

tile_w(c) == c.logo_px

tile_h(c) == c.logo_px

accent_center_x(c) ==
    IF c.fp_mode THEN c.screen_w \div 2
    ELSE Trunc(c.screen_w * c.accent_x, 100)

accent_center_y(c) ==
    IF c.fp_mode THEN Trunc(c.screen_h * c.fp_anchor_ratio_y, 1000)
    ELSE Trunc(c.screen_h * c.accent_y, 100)

accent_size_px(c) ==
    IF c.fp_mode THEN Trunc(c.logo_px * c.fp_scale, 100)
    ELSE Trunc(c.logo_px * c.accent_scale, 100)

\* the bounds test both placers make before a paste
OnCanvas(c, x, y, w, h) ==
    x < c.screen_w /\ y < c.screen_h /\ (x + w) > 0 /\ (y + h) > 0

----------------------------------------------------------------------------
(* Grid placer: tessellated weave *)

pad(c) == Ceil(c.logo_px * 35, 100)

PaddedSide(c) == tile_w(c) + 2 * pad(c)

weave_anchor_x(c) == accent_center_x(c) - PaddedSide(c) \div 2

weave_anchor_y(c) == accent_center_y(c) - PaddedSide(c) \div 2

\* a column range without the extra column for the shifted rows
min_i_tight(c) == -Ceil(weave_anchor_x(c), PaddedSide(c))

min_i(c) == -Ceil(weave_anchor_x(c) + PaddedSide(c), PaddedSide(c))

max_i(c) == Ceil(c.screen_w - weave_anchor_x(c), PaddedSide(c))

min_j(c) == -Ceil(weave_anchor_y(c) + PaddedSide(c), PaddedSide(c))

max_j(c) == Ceil(c.screen_h - weave_anchor_y(c), PaddedSide(c))

\* a shift of a whole side
BrickShiftFull(c, j) == IF j % 2 # 0 THEN PaddedSide(c) ELSE 0

\* the half-step shift of the odd rows
BrickShift(c, j) == IF j % 2 # 0 THEN PaddedSide(c) \div 2 ELSE 0

WeaveSkip(i, j) == i = 0 /\ j = 0

\* the pastes of one iteration of the inner loop: none or one
WeaveCell(c, i, j) ==
    LET S == PaddedSide(c)
        x == weave_anchor_x(c) + i * S + BrickShift(c, j)
        y == weave_anchor_y(c) + j * S
        tile_img == IF (i + j) % 2 = 0 THEN "tA" ELSE "tB"
    IN  IF WeaveSkip(i, j) THEN <<>>
        ELSE IF OnCanvas(c, x, y, S, S)
             THEN << [op |-> "tile", i |-> i, j |-> j, x |-> x, y |-> y,
                      w |-> S, h |-> S, img |-> tile_img] >>
             ELSE <<>>

RECURSIVE WeaveLoopI(_, _, _)
WeaveLoopI(c, j, i) ==
    IF i > max_i(c) THEN <<>>
    ELSE WeaveCell(c, i, j) \o WeaveLoopI(c, j, i + 1)

RECURSIVE WeaveLoopJ(_, _)
WeaveLoopJ(c, j) ==
    IF j > max_j(c) THEN <<>>
    ELSE WeaveLoopI(c, j, min_i(c)) \o WeaveLoopJ(c, j + 1)

----------------------------------------------------------------------------
(* Grid placer: simple grid *)

x_step(c) == Round(tile_w(c) * c.spacing_mult, 10)

y_step(c) == Round(tile_h(c) * c.spacing_mult, 10)

grid_anchor_x(c) == accent_center_x(c) - tile_w(c) \div 2

grid_anchor_y(c) == accent_center_y(c) - tile_h(c) \div 2

\* range(-step * pad_steps, screen + step * pad_steps, step), for step > 0
RangeStart(step) == -step * pad_steps

RangeStop(screen, step) == screen + step * pad_steps

\* side of the tile of a row after the optional resize and rotation
\* (the tile is square; rotate(expand=True) grows the bounding box by an amount
\*  that depends on weave_deg alone, drawn as cfg.rot_grow)
ScaledSide(c, side, row_idx) ==
    IF c.scalevar /\ (Abs(row_idx) % c.scale_every = 0)
    THEN Max(1, Trunc(side * c.scale_factor, 10))
    ELSE side

PlacedSide(c, side, row_idx) ==
    LET s == ScaledSide(c, side, row_idx)
    IN  IF c.weave THEN s + c.rot_grow ELSE s

\* a grid that reserves no cell
GridSkipNone(dx, dy) == FALSE

GridSkip(dx, dy) == dx = 0 /\ dy = 0

GridCell(c, dx, dy) ==
    LET x == grid_anchor_x(c) + dx
        y == grid_anchor_y(c) + dy
        row_idx == IF y_step(c) # 0 THEN dy \div y_step(c) ELSE 0
        tile == tile_for_row(c.style, Abs(row_idx))
        w == PlacedSide(c, tile_w(c), row_idx)
        h == PlacedSide(c, tile_h(c), row_idx)
    IN  IF GridSkip(dx, dy) THEN <<>>
        ELSE IF OnCanvas(c, x, y, w, h)
             THEN << [op |-> "tile", i |-> dx \div x_step(c), j |-> row_idx,
                      x |-> x, y |-> y, w |-> w, h |-> h, img |-> tile] >>
             ELSE <<>>

\* len(range(start, stop, step)) for step > 0
RangeLen(start, stop, step) == Max(0, Ceil(stop - start, step))

\* the values range(-step * pad_steps, screen + step * pad_steps, step) yields
GridRange(screen, step) ==
    { RangeStart(step) + k * step :
        k \in 0..(RangeLen(RangeStart(step), RangeStop(screen, step), step) - 1) }

\* the iterations of the loops that paste, and their pastes in loop order
\* (an iteration that pastes nothing leaves the canvas as it was)
GridPasting(c, dy) == { dx \in GridRange(c.screen_w, x_step(c)) : GridCell(c, dx, dy) # <<>> }

RECURSIVE GridLoopX(_, _, _)
GridLoopX(c, dy, dxs) ==
    IF dxs = {} THEN <<>>
    ELSE LET dx == CHOOSE d \in dxs : \A e \in dxs : d <= e
         IN  GridCell(c, dx, dy) \o GridLoopX(c, dy, dxs \ {dx})

\* the y part of the bounds test does not depend on dx: a row that fails it
\* pastes nothing
RowOnCanvas(c, dy) ==
    LET y == grid_anchor_y(c) + dy
        h == PlacedSide(c, tile_h(c), dy \div y_step(c))
    IN  y < c.screen_h /\ (y + h) > 0

GridRowsPasting(c) ==
    { dy \in GridRange(c.screen_h, y_step(c)) : RowOnCanvas(c, dy) /\ GridPasting(c, dy) # {} }

RECURSIVE GridLoopY(_, _)
GridLoopY(c, dys) ==
    IF dys = {} THEN <<>>
    ELSE LET dy == CHOOSE d \in dys : \A e \in dys : d <= e
         IN  GridLoopX(c, dy, GridPasting(c, dy)) \o GridLoopY(c, dys \ {dy})

----------------------------------------------------------------------------
(* build_wallpaper: the arguments drawn *)

\* accent placements: FP mode, or explicit fractions (in hundredths) of the
\* canvas, on it and far off it
Placements ==
    { [fp_mode |-> TRUE, accent_x |-> 50, accent_y |-> 20] }
    \cup { [fp_mode |-> FALSE, accent_x |-> p[1], accent_y |-> p[2]] :
             p \in { <<0, 0>>, <<50, 20>>, <<100, 100>>,
                     <<-30, 120>>, <<6000, 20>>, <<50, -6000>>, <<-6000, 6000>> } }

\* field layouts: the tessellated weave, or the simple grid with its options
Layouts ==
    { [weave |-> TRUE, tessellate |-> TRUE, rot_grow |-> 0, spacing_mult |-> 16,
       scalevar |-> FALSE, scale_every |-> 4, scale_factor |-> 12] }
    \cup { [weave |-> wv[1], tessellate |-> wv[2], rot_grow |-> wv[3],
            spacing_mult |-> sp,
            scalevar |-> sv[1], scale_every |-> sv[2], scale_factor |-> sv[3]] :
             wv \in { <<FALSE, TRUE, 0>> }
                    \cup { <<TRUE, FALSE, g>> : g \in 1..MaxRotGrow },
             sp \in {0, 10, 16},
             sv \in { <<FALSE, 4, 12>>, <<TRUE, 2, 20>> } }

Configs ==
    { [screen_w |-> sw, screen_h |-> sh, logo_px |-> lp, style |-> st,
       weave |-> lay.weave, tessellate |-> lay.tessellate, rot_grow |-> lay.rot_grow,
       spacing_mult |-> lay.spacing_mult, scalevar |-> lay.scalevar,
       scale_every |-> lay.scale_every, scale_factor |-> lay.scale_factor,
       fp_mode |-> pl.fp_mode, accent_x |-> pl.accent_x, accent_y |-> pl.accent_y,
       accent_scale |-> 100, fp_anchor_ratio_y |-> 718, fp_scale |-> 225] :
         sw \in 1..MaxScreen, sh \in 1..MaxScreen, lp \in 1..MaxLogo,
         st \in StyleNames, lay \in Layouts, pl \in Placements }

NoCall == [fn |-> "none"]

NoResult == [kind |-> "none"]

NoFill == [q |-> <<>>, visited |-> {}, m |-> NewL(0, 0, 0)]

----------------------------------------------------------------------------
(* Temporary files *)

\* whether an os.remove succeeds; when it does not it raises OSError
RemoveOutcomes == BOOLEAN

\* the files on disk after try: os.remove(name) except OSError: pass
os_remove(fs, name, ok) == IF ok THEN fs \ {name} ELSE fs

\* the removals that raised, after the same
os_errors(errs, name, ok) == IF ok THEN errs ELSE errs \cup {name}

----------------------------------------------------------------------------
(* build_wallpaper: the steps *)

Init ==
    /\ cfg \in Configs
    /\ pc = "start"
    /\ bg = <<>>
    /\ saves = 0
    /\ files = {}
    /\ oserrors = {}
    /\ accent_img = 0
    /\ call = NoCall
    /\ fill = NoFill
    /\ result = NoResult

\* render_svg_to_png(svg_path, "_logo_tmp.png", logo_px); open it; take its alpha
RenderLogo ==
    /\ pc = "start"
    /\ files' = files \cup {"_logo_tmp.png"}
    /\ pc' = "logo"
    /\ UNCHANGED <<cfg, bg, saves, oserrors, accent_img, call, fill, result>>

\* tile_for_row = build_tile_variants(mask, style): raises on a style outside the set
StyleTile ==
    /\ pc = "logo"
    /\ pc' = IF cfg.style \in Styles THEN "styled" ELSE "error"
    /\ UNCHANGED <<cfg, bg, saves, files, oserrors, accent_img, call, fill, result>>

\* bg = Image.new("RGB", (screen_w, screen_h), (0,0,0))
CreateBackground ==
    /\ pc = "styled"
    /\ bg' = << [op |-> "new", w |-> cfg.screen_w, h |-> cfg.screen_h] >>
    /\ pc' = "bg"
    /\ UNCHANGED <<cfg, saves, files, oserrors, accent_img, call, fill, result>>

\* if weave and tessellate: the padded, rotated, brick-offset field
PlaceWeave ==
    /\ pc = "bg"
    /\ cfg.weave /\ cfg.tessellate
    /\ bg' = bg \o WeaveLoopJ(cfg, min_j(cfg))
    /\ pc' = "field"
    /\ UNCHANGED <<cfg, saves, files, oserrors, accent_img, call, fill, result>>

\* else: the simple grid; range() raises ValueError on a step of zero
PlaceSimple ==
    /\ pc = "bg"
    /\ ~(cfg.weave /\ cfg.tessellate)
    /\ IF x_step(cfg) = 0 \/ y_step(cfg) = 0
       THEN /\ pc' = "error"
            /\ bg' = bg
       ELSE /\ pc' = "field"
            /\ bg' = bg \o GridLoopY(cfg, GridRowsPasting(cfg))
    /\ UNCHANGED <<cfg, saves, files, oserrors, accent_img, call, fill, result>>

\* the accent image: build_accent_with_center in FP mode, else a render and
\* style_tinted_accent; either way "_accent_tmp.png" is written, read, and
\* removed under try / except OSError
BuildAccent ==
    /\ pc = "field"
    /\ accent_img' = accent_size_px(cfg)
    /\ \E ok \in RemoveOutcomes :
        /\ files' = os_remove(files \cup {"_accent_tmp.png"}, "_accent_tmp.png", ok)
        /\ oserrors' = os_errors(oserrors, "_accent_tmp.png", ok)
    /\ pc' = "accent"
    /\ UNCHANGED <<cfg, bg, saves, call, fill, result>>

\* bg.paste(accent_img, (ax, ay), accent_img)
PasteAccent ==
    /\ pc = "accent"
    /\ bg' = Append(bg, [op |-> "accent",
                         x |-> accent_center_x(cfg) - accent_img \div 2,
                         y |-> accent_center_y(cfg) - accent_img \div 2,
                         w |-> accent_img, h |-> accent_img])
    /\ pc' = "pasted"
    /\ UNCHANGED <<cfg, saves, files, oserrors, accent_img, call, fill, result>>

\* a save made before the accent is pasted
ExportBeforeAccent ==
    /\ pc = "accent"
    /\ saves' = saves + 1
    /\ pc' = "saved"
    /\ UNCHANGED <<cfg, bg, files, oserrors, accent_img, call, fill, result>>

\* bg.save(out_path, "PNG")
Export ==
    /\ pc = "pasted"
    /\ saves' = saves + 1
    /\ pc' = "saved"
    /\ UNCHANGED <<cfg, bg, files, oserrors, accent_img, call, fill, result>>

\* os.remove("_logo_tmp.png"), OSError ignored
RemoveLogo ==
    /\ pc = "saved"
    /\ \E ok \in RemoveOutcomes :
        /\ files' = os_remove(files, "_logo_tmp.png", ok)
        /\ oserrors' = os_errors(oserrors, "_logo_tmp.png", ok)
    /\ pc' = "done"
    /\ UNCHANGED <<cfg, bg, saves, accent_img, call, fill, result>>

Next ==
    \/ RenderLogo
    \/ StyleTile
    \/ CreateBackground
    \/ PlaceWeave
    \/ PlaceSimple
    \/ BuildAccent
    \/ PasteAccent
    \/ Export
    \/ RemoveLogo

Spec == Init /\ [][Next]_vars

----------------------------------------------------------------------------
(* Direct calls of the stylers and of the accent composer *)

MaxOpaque == 3

\* the subsets of P of at most k elements
RECURSIVE SubsetsUpTo(_, _)
SubsetsUpTo(P, k) ==
    IF k = 0 THEN {{}}
    ELSE LET prev == SubsetsUpTo(P, k - 1)
         IN  prev \cup { s \cup {p} : s \in prev, p \in P }

TileSizes == { <<4, 4>>, <<5, 3>> }

\* shape masks: up to MaxOpaque pixels of the shape, opaque or half transparent
MasksOfSize(w, h) ==
    { [w |-> w, h |-> h, px |-> [p \in Pixels(w, h) |-> IF p \in shape THEN a ELSE 0]] :
        shape \in SubsetsUpTo(Pixels(w, h), MaxOpaque), a \in {128, 255} }

TileMasks == UNION { MasksOfSize(sz[1], sz[2]) : sz \in TileSizes }

\* the compositor does not run while a component is called directly
CompositorIdle ==
    /\ cfg = [style |-> "none"]
    /\ pc = "idle"
    /\ bg = <<>>
    /\ saves = 0
    /\ files = {}
    /\ oserrors = {}
    /\ accent_img = 0

InitStyle ==
    /\ CompositorIdle
    /\ call \in { [fn |-> "none", img |-> m] : m \in TileMasks }
    /\ fill = NoFill
    /\ result = NoResult

CallBuildTileVariants ==
    /\ call.fn = "none"
    /\ \E style \in StyleNames, row \in 0..1 :
        /\ call' = [fn |-> "build_tile_variants", img |-> call.img, style |-> style, row |-> row]
        /\ result' = build_tile_variants(call.img, style, row)
    /\ UNCHANGED <<cfg, pc, bg, saves, files, oserrors, accent_img, fill>>

CallStyleTintedAccent ==
    /\ call.fn = "none"
    /\ \E style \in StyleNames :
        /\ call' = [fn |-> "style_tinted_accent", img |-> call.img, style |-> style]
        /\ result' = style_tinted_accent(Rendered(call.img), style)
    /\ UNCHANGED <<cfg, pc, bg, saves, files, oserrors, accent_img, fill>>

CallBuildAccentWithCenter ==
    /\ call.fn = "none"
    /\ \E style \in StyleNames \cup {"None"} :
        /\ call' = [fn |-> "build_accent_with_center", img |-> call.img, style |-> style]
        /\ result' = build_accent_with_center(call.img, style)
    /\ \E ok \in RemoveOutcomes :
        /\ files' = os_remove(files \cup {"_accent_tmp.png"}, "_accent_tmp.png", ok)
        /\ oserrors' = os_errors(oserrors, "_accent_tmp.png", ok)
    /\ UNCHANGED <<cfg, pc, bg, saves, accent_img, fill>>

NextStyle ==
    \/ CallBuildTileVariants
    \/ CallStyleTintedAccent
    \/ CallBuildAccentWithCenter

SpecStyle == InitStyle /\ [][NextStyle]_vars

----------------------------------------------------------------------------
(* Direct calls of the hole isolator *)

MaxRing == 3

HoleSizes == { <<5, 5>>, <<12, 12>>, <<13, 12>> }

\* the centre and its four neighbours
Plus(cx, cy) == { <<cx, cy>>, <<cx + 1, cy>>, <<cx - 1, cy>>, <<cx, cy + 1>>, <<cx, cy - 1>> }

\* the square ring at distance d around the centre
Ring(cx, cy, d) == { p \in ((cx - d)..(cx + d)) \X ((cy - d)..(cy + d)) :
                       Max(Abs(p[1] - cx), Abs(p[2] - cy)) = d }

\* an alpha mask: opaque pixels among the centre and its neighbours, and around
\* them no ring (d = 0) or a ring of alpha ra, closed or with a one-pixel gap
HoleMask(w, h, solid, d, ra, gap) ==
    LET cx == w \div 2
        cy == h \div 2
    IN  [w |-> w, h |-> h,
         px |-> [p \in Pixels(w, h) |->
                    IF p \in solid THEN 255
                    ELSE IF d > 0 /\ p \in Ring(cx, cy, d) /\ ~(gap /\ p = <<cx, cy - d>>)
                         THEN ra
                         ELSE 0]]

HoleMasks ==
    { HoleMask(sz[1], sz[2], solid, r[1], r[2], r[3]) :
        sz \in HoleSizes,
        solid \in UNION { SUBSET Plus(z[1] \div 2, z[2] \div 2) : z \in HoleSizes },
        r \in { <<0, 255, FALSE>> } \cup ((2..MaxRing) \X {1, 255} \X BOOLEAN) }

InitFlood ==
    /\ CompositorIdle
    /\ call \in { [fn |-> "none", img |-> m] : m \in HoleMasks }
    /\ fill = NoFill
    /\ result = NoResult

\* lines 146-164: the seed search; without a seed the empty mask is returned
FloodStart ==
    /\ call.fn = "none"
    /\ LET k == SeedIndex(call.img)
       IN  IF k = 0
           THEN /\ call' = [fn |-> "flood_fill_inner_hole", img |-> call.img, at |-> "returned"]
                /\ fill' = fill
                /\ result' = Image(NewL(call.img.w, call.img.h, 0))
           ELSE /\ call' = [fn |-> "flood_fill_inner_hole", img |-> call.img, at |-> "loop"]
                /\ fill' = FillStart(call.img, Seeds(call.img.w, call.img.h)[k])
                /\ result' = result
    /\ UNCHANGED <<cfg, pc, bg, saves, files, oserrors, accent_img>>

\* one iteration of while q
FloodLoop ==
    /\ call.fn = "flood_fill_inner_hole" /\ call.at = "loop"
    /\ fill.q # <<>>
    /\ fill' = FillStep(call.img, fill)
    /\ UNCHANGED <<cfg, pc, bg, saves, files, oserrors, accent_img, call, result>>

\* return mask
FloodReturn ==
    /\ call.fn = "flood_fill_inner_hole" /\ call.at = "loop"
    /\ fill.q = <<>>
    /\ call' = [call EXCEPT !.at = "returned"]
    /\ result' = Image(fill.m)
    /\ UNCHANGED <<cfg, pc, bg, saves, files, oserrors, accent_img, fill>>

NextFlood ==
    \/ FloodStart
    \/ FloodLoop
    \/ FloodReturn

SpecFlood == InitFlood /\ [][NextFlood]_vars

----------------------------------------------------------------------------
(* The seed candidates, for masks of every size *)

MaxDim == 230

InitSeeds ==
    /\ CompositorIdle
    /\ call \in { [fn |-> "none", w |-> w, h |-> h] : w \in 1..MaxDim, h \in 1..MaxDim }
    /\ fill = NoFill
    /\ result = NoResult

\* lines 150-155 of flood_fill_inner_hole
BuildSeeds ==
    /\ call.fn = "none"
    /\ call' = [call EXCEPT !.fn = "seeds"]
    /\ result' = [kind |-> "seeds", seeds |-> Seeds(call.w, call.h)]
    /\ UNCHANGED <<cfg, pc, bg, saves, files, oserrors, accent_img, fill>>

NextSeeds == BuildSeeds

SpecSeeds == InitSeeds /\ [][NextSeeds]_vars

----------------------------------------------------------------------------
(* Properties of the canvas compositor and the grid placers *)

Ops(kind) == { k \in 1..Len(bg) : bg[k].op = kind }

TessellatedWeave == cfg.weave /\ cfg.tessellate

FieldPlaced == pc \in {"field", "accent", "pasted", "saved", "done"}

\* C2: the canvas is created, then takes field-tile pastes, then exactly one
\* accent paste after which nothing more is pasted, and is saved exactly once,
\* after the accent paste: the saved canvas ends with the accent, and a run that
\* returns has saved once.
C2_CanvasOrder ==
    /\ \A k \in 1..Len(bg) : (bg[k].op = "new") <=> (k = 1)
    /\ \A k \in Ops("accent") : k = Len(bg) /\ pc \in {"pasted", "saved", "done"}
    /\ \A k \in Ops("tile") : \A l \in Ops("accent") : k < l
    /\ saves <= 1
    /\ saves = 1 => Ops("accent") # {} /\ pc \in {"saved", "done"}
    /\ pc \in {"saved", "done"} => saves = 1 /\ Cardinality(Ops("accent")) = 1

\* C2 witness: a finished run whose canvas took field tiles before the accent
C2_Witness ==
    /\ pc = "done"
    /\ Cardinality(Ops("tile")) >= 2
    /\ saves = 1

\* C4: no field tile is ever pasted for the logical cell (0,0), in either
\* layout: none carries the index (0,0) and none sits at the anchor, where
\* that cell lies.
C4_NoTileAtOrigin ==
    \A k \in Ops("tile") :
        /\ ~(bg[k].i = 0 /\ bg[k].j = 0)
        /\ IF TessellatedWeave
           THEN ~(bg[k].x = weave_anchor_x(cfg) /\ bg[k].y = weave_anchor_y(cfg))
           ELSE ~(bg[k].x = grid_anchor_x(cfg) /\ bg[k].y = grid_anchor_y(cfg))

\* C4 witness: the simple grid has run with weave and scale variance on, the
\* cell (0,0) lies on the canvas, and its neighbours were pasted
C4_Witness ==
    /\ pc = "field"
    /\ ~TessellatedWeave /\ cfg.weave /\ cfg.scalevar
    /\ OnCanvas(cfg, grid_anchor_x(cfg), grid_anchor_y(cfg), tile_w(cfg), tile_h(cfg))
    /\ \E k \in Ops("tile") : bg[k].i = 1 /\ bg[k].j = 0
    /\ \E k \in Ops("tile") : bg[k].i = 0 /\ bg[k].j = 1

\* C4 witness in the other layout
C4_WitnessWeave ==
    /\ pc = "field"
    /\ TessellatedWeave
    /\ OnCanvas(cfg, weave_anchor_x(cfg), weave_anchor_y(cfg), PaddedSide(cfg), PaddedSide(cfg))
    /\ \E k \in Ops("tile") : bg[k].i = 1 /\ bg[k].j = 0

\* pairs of pasted weave cells one row apart in the same column
RowNeighbours ==
    { p \in Ops("tile") \X Ops("tile") :
        bg[p[1]].i = bg[p[2]].i /\ bg[p[2]].j = bg[p[1]].j + 1 }

\* C5 as stated: in the tessellated weave two pasted cells one row apart in
\* the same column have x positions exactly S/2 apart.
C5_HalfSideExactly ==
    TessellatedWeave =>
        \A p \in RowNeighbours : 2 * Abs(bg[p[1]].x - bg[p[2]].x) = PaddedSide(cfg)

\* C5 amended: their x positions are exactly S // 2 apart, the half of S
\* rounded down (S/2 when S is even).
C5_HalfSideFloor ==
    TessellatedWeave =>
        \A p \in RowNeighbours : Abs(bg[p[1]].x - bg[p[2]].x) = PaddedSide(cfg) \div 2

\* C5 witness: an odd padded side, and a pasted pair one row apart
C5_Witness ==
    /\ TessellatedWeave
    /\ PaddedSide(cfg) % 2 = 1
    /\ RowNeighbours # {}

\* whether the pixel lies in the footprint of the paste
Covers(t, px, py) == t.x <= px /\ px < t.x + t.w /\ t.y <= py /\ py < t.y + t.h

\* the footprint of the reserved cell (0,0) of the weave
InReservedCell(px, py) ==
    Covers([x |-> weave_anchor_x(cfg), y |-> weave_anchor_y(cfg),
            w |-> PaddedSide(cfg), h |-> PaddedSide(cfg)], px, py)

\* C9: once the tessellated weave has run, every pixel of the canvas lies in
\* the footprint of a pasted cell, except the pixels of the reserved cell (0,0).
C9_WeaveCovers ==
    (FieldPlaced /\ TessellatedWeave) =>
        \A px \in 0..(cfg.screen_w - 1), py \in 0..(cfg.screen_h - 1) :
            \/ InReservedCell(px, py)
            \/ \E k \in Ops("tile") : Covers(bg[k], px, py)

\* C9 witness: the weave has run around an anchor left of and above the canvas
\* and pasted into odd and even rows
C9_Witness ==
    /\ pc = "field"
    /\ TessellatedWeave
    /\ weave_anchor_x(cfg) < 0 /\ weave_anchor_y(cfg) < 0
    /\ \E k \in Ops("tile") : bg[k].j % 2 = 1
    /\ \E k \in Ops("tile") : bg[k].j % 2 = 0
    /\ cfg.screen_w > PaddedSide(cfg)

\* the grid cells (k,l) of the simple grid whose footprint meets the canvas
GridCellsOnCanvas ==
    LET xs == x_step(cfg)
        ys == y_step(cfg)
        big == 2 * Max(tile_w(cfg), tile_h(cfg)) + MaxRotGrow
        ks == ((-grid_anchor_x(cfg) - big) \div xs - 1)..((cfg.screen_w - grid_anchor_x(cfg)) \div xs + 1)
        ls == ((-grid_anchor_y(cfg) - big) \div ys - 1)..((cfg.screen_h - grid_anchor_y(cfg)) \div ys + 1)
    IN  { kl \in ks \X ls :
            /\ kl # <<0, 0>>
            /\ OnCanvas(cfg, grid_anchor_x(cfg) + kl[1] * xs, grid_anchor_y(cfg) + kl[2] * ys,
                        PlacedSide(cfg, tile_w(cfg), kl[2]), PlacedSide(cfg, tile_h(cfg), kl[2])) }

\* C10 as stated: once the simple grid has run, every cell (k,l) other than
\* (0,0) whose footprint meets the canvas has been pasted, wherever the anchor is.
C10_GridComplete ==
    (FieldPlaced /\ ~TessellatedWeave) =>
        \A kl \in GridCellsOnCanvas :
            \E t \in Ops("tile") :
                /\ bg[t].x = grid_anchor_x(cfg) + kl[1] * x_step(cfg)
                /\ bg[t].y = grid_anchor_y(cfg) + kl[2] * y_step(cfg)

----------------------------------------------------------------------------
(* Properties of the tile styler and of unknown styles *)

TileBuilt == call.fn = "build_tile_variants" /\ result.kind = "image"

SameSize(a, b) == a.w = b.w /\ a.h = b.h

\* the pixels onto which the emboss style's drop shadow can fall: those whose
\* neighbour two up and two left lies within one pixel of the shape
UnderShadow(mask, p) ==
    \E q \in Pixels(mask.w, mask.h) :
        /\ mask.px[q] > 0
        /\ Abs(q[1] - (p[1] - 2)) <= 1
        /\ Abs(q[2] - (p[2] - 2)) <= 1

\* C1 as stated: for every style and row the tile has the mask's size and is
\* fully transparent wherever the mask's alpha is 0.
C1_TileMasked ==
    TileBuilt =>
        /\ SameSize(result.img, call.img)
        /\ \A p \in Pixels(call.img.w, call.img.h) :
              call.img.px[p] = 0 => result.img.px[p].a = 0

\* C1 amended: the tile has the mask's size for every style; gradient and
\* glossmix tiles are fully transparent wherever the mask's alpha is 0; an
\* emboss tile is fully transparent wherever the mask's alpha is 0 and the
\* drop shadow (the mask dilated by one pixel, shifted by (2,2)) does not fall.
C1_TileMaskedOrShadow ==
    TileBuilt =>
        /\ SameSize(result.img, call.img)
        /\ \A p \in Pixels(call.img.w, call.img.h) :
              (call.img.px[p] = 0 /\ ~(call.style = "emboss" /\ UnderShadow(call.img, p)))
                  => result.img.px[p].a = 0

\* C1 witness: an emboss tile with a shadow pixel outside the shape, and a
\* transparent pixel outside both
C1_Witness ==
    /\ TileBuilt
    /\ call.style = "emboss"
    /\ \E p \in Pixels(call.img.w, call.img.h) :
          call.img.px[p] = 0 /\ result.img.px[p].a > 0 /\ result.img.px[p].c = "shadow"
    /\ \E p \in Pixels(call.img.w, call.img.h) :
          call.img.px[p] = 0 /\ result.img.px[p].a = 0

\* C6 as stated: a call of the tile styler, the accent styler or the accent
\* composer with a style outside {gradient, glossmix, emboss} raises an error.
C6_UnknownStyleFails ==
    (/\ call.fn \in {"build_tile_variants", "style_tinted_accent", "build_accent_with_center"}
     /\ call.style \notin Styles \cup {"None"})
        => result.kind = "error"

----------------------------------------------------------------------------
(* Properties of the hole isolator *)

FloodReturned == call.fn = "flood_fill_inner_hole" /\ call.at = "returned"

\* the pixels 4-connected to a pixel of S through pixels of alpha 0
RECURSIVE Connected(_, _)
Connected(alpha, S) ==
    LET near == UNION { { <<p[1] + 1, p[2]>>, <<p[1] - 1, p[2]>>,
                          <<p[1], p[2] + 1>>, <<p[1], p[2] - 1>> } : p \in S }
        N == S \cup { n \in near : n \in Pixels(alpha.w, alpha.h) /\ alpha.px[n] = 0 }
    IN  IF N = S THEN S ELSE Connected(alpha, N)

Border(alpha) ==
    { p \in Pixels(alpha.w, alpha.h) :
        p[1] = 0 \/ p[2] = 0 \/ p[1] = alpha.w - 1 \/ p[2] = alpha.h - 1 }

\* the canvas exterior: the transparent pixels connected to the image border
Exterior(alpha) == Connected(alpha, { p \in Border(alpha) : alpha.px[p] = 0 })

Marked(img) == { p \in Pixels(img.w, img.h) : img.px[p] = 255 }

\* the transparent candidates, by their place in generation order
TransparentCandidates(alpha) ==
    { k \in 1..Len(Seeds(alpha.w, alpha.h)) :
        /\ Seeds(alpha.w, alpha.h)[k] \in Pixels(alpha.w, alpha.h)
        /\ alpha.px[Seeds(alpha.w, alpha.h)[k]] = 0 }

FirstTransparent(alpha) ==
    Seeds(alpha.w, alpha.h)[CHOOSE k \in TransparentCandidates(alpha) :
                               \A l \in TransparentCandidates(alpha) : k <= l]

\* C3 as stated: the region returned holds no pixel of the canvas exterior,
\* and is empty when no candidate is transparent.
C3_NoExteriorPixel ==
    FloodReturned =>
        /\ Marked(result.img) \cap Exterior(call.img) = {}
        /\ TransparentCandidates(call.img) = {} => Marked(result.img) = {}

\* C7: the mask returned has the size of the alpha mask; its pixels are 255
\* exactly on the pixels 4-connected, through pixels of alpha 0, to the first
\* candidate of alpha 0, and 0 elsewhere; without such a candidate it is all 0.
C7_FillIsSeedComponent ==
    FloodReturned =>
        /\ result.kind = "image"
        /\ SameSize(result.img, call.img)
        /\ \A p \in Pixels(call.img.w, call.img.h) : result.img.px[p] \in {0, 255}
        /\ IF TransparentCandidates(call.img) = {}
           THEN Marked(result.img) = {}
           ELSE Marked(result.img) = Connected(call.img, {FirstTransparent(call.img)})
        /\ \A p \in Marked(result.img) : call.img.px[p] = 0

\* C7 witness: the centre is opaque, the fill started from a later candidate
\* and stopped at a ring of alpha 1, leaving transparent pixels unmarked
C7_Witness ==
    /\ FloodReturned
    /\ call.img.px[<<call.img.w \div 2, call.img.h \div 2>>] = 255
    /\ Marked(result.img) # {}
    /\ \E p \in Pixels(call.img.w, call.img.h) : call.img.px[p] = 1
    /\ \E p \in Pixels(call.img.w, call.img.h) : call.img.px[p] = 0 /\ result.img.px[p] = 0

\* C7 witness of the other case: no candidate is transparent
C7_WitnessNoSeed ==
    /\ FloodReturned
    /\ TransparentCandidates(call.img) = {}
    /\ \E p \in Pixels(call.img.w, call.img.h) : call.img.px[p] = 0

\* C8 as stated: at most 50 candidates, each at a radius from the centre
\* below min(w,h)/6, the radii rising by 3 from 1 along the four directions.
C8_SeedsBounded ==
    result.kind = "seeds" =>
        LET seeds == result.seeds
            cx == call.w \div 2
            cy == call.h \div 2
        IN  /\ Len(seeds) <= 50
            /\ seeds[1] = <<cx, cy>>
            /\ \A k \in 2..Len(seeds) :
                  LET r == 1 + 3 * ((k - 2) \div 4)
                  IN  /\ 6 * r < Min(call.w, call.h)
                      /\ seeds[k] = CASE (k - 2) % 4 = 0 -> <<cx + r, cy>>
                                      [] (k - 2) % 4 = 1 -> <<cx - r, cy>>
                                      [] (k - 2) % 4 = 2 -> <<cx, cy + r>>
                                      [] (k - 2) % 4 = 3 -> <<cx, cy - r>>

\* the same without the cap on the number of candidates
C8_SeedsShape ==
    result.kind = "seeds" =>
        LET seeds == result.seeds
            cx == call.w \div 2
            cy == call.h \div 2
        IN  /\ Len(seeds) <= 53
            /\ seeds[1] = <<cx, cy>>
            /\ \A k \in 2..Len(seeds) :
                  LET r == 1 + 3 * ((k - 2) \div 4)
                  IN  /\ 6 * r < Min(call.w, call.h)
                      /\ seeds[k] \in { <<cx + r, cy>>, <<cx - r, cy>>, <<cx, cy + r>>, <<cx, cy - r>> }

----------------------------------------------------------------------------
(* Properties of the temporary files *)

\* build_wallpaper has handed control back: it returned or it raised
WallpaperExited == pc \in {"done", "error"}

AccentComposerExited == call.fn = "build_accent_with_center" /\ result.kind # "none"

\* the temporary files left on disk whose removal did not fail
Leaked == files \ oserrors

\* C11 as stated: when build_wallpaper or build_accent_with_center hands
\* control back, by a return or by an error, no temporary file is left on disk
\* except one whose removal failed, and a failed removal does not make the
\* operation fail.
C11_TempFilesRemoved ==
    /\ (WallpaperExited \/ AccentComposerExited) => Leaked = {}
    /\ oserrors # {} => pc # "error"

\* the part that holds: an operation that returns leaves no temporary file
\* whose removal succeeded
C11_RemovedOnReturn ==
    /\ (pc = "done" \/ AccentComposerExited) => Leaked = {}
    /\ oserrors # {} => pc # "error"

\* a run that returned although both removals failed
C11_WitnessFailedRemoval ==
    /\ pc = "done"
    /\ oserrors = {"_accent_tmp.png", "_logo_tmp.png"}
    /\ saves = 1

====
